---------------------------- MODULE Spec2Model ----------------------------
(***************************************************************************)
(* ClickUp MCP server: the universal retrieval tools (search over the task *)
(* backend with the tool-catalog fallback) and the HTTP transport layer    *)
(* (Streamable HTTP and legacy SSE session registries, REST aliases).      *)
(*                                                                         *)
(* JavaScript strings are TLA+ strings; a character is a string of length  *)
(* one.  A JavaScript number is a record [nan, v]: Math.min, Math.max,     *)
(* parseInt and Array.prototype.slice are modelled with NaN.               *)
(***************************************************************************)
EXTENDS Integers, Sequences, FiniteSets, TLC

\* ------------------------------------------------------------------ bounds
\* Most summaries the backend listing returns in one behaviour.
MaxItems == 2
\* Most transports (sessions of either kind) created in one behaviour.
MaxTransports == 2

\* ------------------------------------------------------- program constants
\* search.ts:104  rawLimit defaults to 10
DefaultLimit == 10
\* search.ts:105  Math.min(..., 50)
MaxLimit == 50
\* search.ts:105  Math.max(1, ...)
MinLimit == 1
\* search.ts:282  .slice(0, 10) of the catalog matches on the error path
ErrorPathCap == 10
\* part_002:192  the default and the cap of a REST limit
RestDefaultLimit == 10
RestMaxLimit == 50

\* ------------------------------------------------------- JavaScript values
NaN == [nan |-> TRUE, v |-> 0]
Num(n) == [nan |-> FALSE, v |-> n]

MathMin(a, b) ==
  IF a.nan \/ b.nan THEN NaN ELSE IF a.v <= b.v THEN a ELSE b

MathMax(a, b) ==
  IF a.nan \/ b.nan THEN NaN ELSE IF a.v >= b.v THEN a ELSE b

Minus(a, b) == IF a.nan \/ b.nan THEN NaN ELSE Num(a.v - b.v)

\* x || d for a number x: NaN and 0 are falsy.
NumOr(x, d) == IF x.nan \/ x.v = 0 THEN d ELSE x

Char(s, i) == SubSeq(s, i, i)

Uppers == "ABCDEFGHIJKLMNOPQRSTUVWXYZ"
Lowers == "abcdefghijklmnopqrstuvwxyz"
Digits == "0123456789"

LowerChar(c) ==
  IF \E i \in 1..26 : Char(Uppers, i) = c
    THEN Char(Lowers, CHOOSE i \in 1..26 : Char(Uppers, i) = c)
    ELSE c

\* String.prototype.toLowerCase, by halves.
RECURSIVE toLowerCase(_)
toLowerCase(s) ==
  IF Len(s) = 0 THEN ""
  ELSE IF Len(s) = 1 THEN LowerChar(s)
  ELSE toLowerCase(SubSeq(s, 1, Len(s) \div 2))
       \o toLowerCase(SubSeq(s, Len(s) \div 2 + 1, Len(s)))

IsSpace(c) == c \in {" ", "\t", "\n"}
IsDigit(c) == \E i \in 1..10 : Char(Digits, i) = c
DigitVal(c) == (CHOOSE i \in 1..10 : Char(Digits, i) = c) - 1
IsAlnum(c) ==
  \/ IsDigit(c)
  \/ \E i \in 1..26 : Char(Uppers, i) = c \/ Char(Lowers, i) = c

RECURSIVE trimStart(_)
trimStart(s) ==
  IF s # "" /\ IsSpace(Char(s, 1)) THEN trimStart(Tail(s)) ELSE s

RECURSIVE trimEnd(_)
trimEnd(s) ==
  IF s # "" /\ IsSpace(Char(s, Len(s)))
    THEN trimEnd(SubSeq(s, 1, Len(s) - 1)) ELSE s

trim(s) == trimEnd(trimStart(s))

\* String.prototype.includes
includes(s, q) ==
  \E i \in 0..(Len(s) - Len(q)) : SubSeq(s, i + 1, i + Len(q)) = q

\* The digits read by parseInt from position i on, as a number.
RECURSIVE DigitsFrom(_, _, _)
DigitsFrom(s, i, acc) ==
  IF i <= Len(s) /\ IsDigit(Char(s, i))
    THEN DigitsFrom(s, i + 1, acc * 10 + DigitVal(Char(s, i)))
    ELSE acc

\* parseInt(s, 10): leading white space, an optional sign, then the longest
\* run of digits; NaN when there is no digit.
parseInt(s) ==
  LET t == trimStart(s)
      neg == t # "" /\ Char(t, 1) = "-"
      signed == t # "" /\ Char(t, 1) \in {"-", "+"}
      d == IF signed THEN Tail(t) ELSE t
  IN IF d = "" \/ ~IsDigit(Char(d, 1)) THEN NaN
     ELSE IF neg THEN Num(0 - DigitsFrom(d, 1, 0)) ELSE Num(DigitsFrom(d, 1, 0))

\* Array.prototype.slice(0, end): NaN counts as 0, a negative end counts
\* from the end of the array.
slice0(arr, end) ==
  LET n == Len(arr)
      e == IF end.nan THEN 0
           ELSE IF end.v < 0 THEN (IF n + end.v < 0 THEN 0 ELSE n + end.v)
           ELSE IF end.v > n THEN n ELSE end.v
  IN SubSeq(arr, 1, e)

\* Array.prototype.filter, by halves: keep[i] is the predicate's value on
\* arr[i].
RECURSIVE FilterRange(_, _, _, _)
FilterRange(arr, keep, lo, hi) ==
  IF lo > hi THEN <<>>
  ELSE IF lo = hi THEN (IF keep[lo] THEN <<arr[lo]>> ELSE <<>>)
  ELSE FilterRange(arr, keep, lo, (lo + hi) \div 2)
       \o FilterRange(arr, keep, (lo + hi) \div 2 + 1, hi)

filter(arr, keep) == FilterRange(arr, keep, 1, Len(arr))

\* The maximal runs of characters of s that are not breaks, in order: what
\* s.split(<breaks>+).filter(p => p.length > 0) returns.
IsSeparator(c) == c \in {"/", "_", "-"} \/ IsSpace(c)
BreakAt(s, i, kind) ==
  IF kind = "separator" THEN IsSeparator(Char(s, i)) ELSE ~IsAlnum(Char(s, i))

RunStarts(s, kind) ==
  {i \in 1..Len(s) :
     ~BreakAt(s, i, kind) /\ (i = 1 \/ BreakAt(s, i - 1, kind))}

RunEnd(s, i, kind) ==
  CHOOSE j \in i..Len(s) :
    /\ \A k \in i..j : ~BreakAt(s, k, kind)
    /\ (j = Len(s) \/ BreakAt(s, j + 1, kind))

SetMin(S) == CHOOSE x \in S : \A y \in S : x <= y

RECURSIVE RunsFrom(_, _, _)
RunsFrom(s, starts, kind) ==
  IF starts = {} THEN <<>>
  ELSE <<SubSeq(s, SetMin(starts), RunEnd(s, SetMin(starts), kind))>>
       \o RunsFrom(s, starts \ {SetMin(starts)}, kind)

runs(s, kind) == RunsFrom(s, RunStarts(s, kind), kind)

\* --------------------------------------------------------- optional values
None == <<>>
Some(x) == <<x>>
IsSome(o) == o # <<>>
Get(o) == o[1]

\* ------------------------------------------------------ the tool catalog
repoUrl == "https://github.com/TaazKareem/clickup-mcp-server"

toolCatalog ==
  <<[id |-> "tool:search", name |-> "search", title |-> "Search",
     description |-> "Universal retrieval: search by keywords and return top-k IDs.",
     url |-> repoUrl],
    [id |-> "tool:fetch", name |-> "fetch", title |-> "Fetch",
     description |-> "Universal retrieval: fetch a single document by ID and return id, title, text, url, metadata.",
     url |-> repoUrl],
    [id |-> "tool:get_workspace_hierarchy", name |-> "get_workspace_hierarchy", title |-> "Get Workspace Hierarchy",
     description |-> "Gets complete workspace hierarchy (spaces, folders, lists).",
     url |-> repoUrl],
    [id |-> "tool:create_task", name |-> "create_task", title |-> "Create Task",
     description |-> "Creates a ClickUp task in a list.",
     url |-> repoUrl],
    [id |-> "tool:update_task", name |-> "update_task", title |-> "Update Task",
     description |-> "Updates an existing ClickUp task.",
     url |-> repoUrl],
    [id |-> "tool:move_task", name |-> "move_task", title |-> "Move Task",
     description |-> "Moves a ClickUp task to another list.",
     url |-> repoUrl],
    [id |-> "tool:duplicate_task", name |-> "duplicate_task", title |-> "Duplicate Task",
     description |-> "Duplicates a ClickUp task.",
     url |-> repoUrl],
    [id |-> "tool:get_task", name |-> "get_task", title |-> "Get Task",
     description |-> "Retrieves a ClickUp task by ID.",
     url |-> repoUrl],
    [id |-> "tool:delete_task", name |-> "delete_task", title |-> "Delete Task",
     description |-> "Deletes a ClickUp task by ID.",
     url |-> repoUrl],
    [id |-> "tool:get_task_comments", name |-> "get_task_comments", title |-> "Get Task Comments",
     description |-> "Gets comments for a ClickUp task.",
     url |-> repoUrl],
    [id |-> "tool:create_task_comment", name |-> "create_task_comment", title |-> "Create Task Comment",
     description |-> "Creates a new comment on a ClickUp task.",
     url |-> repoUrl],
    [id |-> "tool:attach_task_file", name |-> "attach_task_file", title |-> "Attach Task File",
     description |-> "Attaches a file to a ClickUp task.",
     url |-> repoUrl],
    [id |-> "tool:get_workspace_tasks", name |-> "get_workspace_tasks", title |-> "Get Workspace Tasks",
     description |-> "Retrieves tasks across the workspace with filters.",
     url |-> repoUrl],
    [id |-> "tool:get_task_time_entries", name |-> "get_task_time_entries", title |-> "Get Task Time Entries",
     description |-> "Gets time entries for a task.",
     url |-> repoUrl],
    [id |-> "tool:start_time_tracking", name |-> "start_time_tracking", title |-> "Start Time Tracking",
     description |-> "Starts time tracking for a task.",
     url |-> repoUrl],
    [id |-> "tool:stop_time_tracking", name |-> "stop_time_tracking", title |-> "Stop Time Tracking",
     description |-> "Stops time tracking for a task.",
     url |-> repoUrl],
    [id |-> "tool:add_time_entry", name |-> "add_time_entry", title |-> "Add Time Entry",
     description |-> "Adds a manual time entry to a task.",
     url |-> repoUrl],
    [id |-> "tool:delete_time_entry", name |-> "delete_time_entry", title |-> "Delete Time Entry",
     description |-> "Deletes a time entry from a task.",
     url |-> repoUrl],
    [id |-> "tool:get_current_time_entry", name |-> "get_current_time_entry", title |-> "Get Current Time Entry",
     description |-> "Gets currently running time entry.",
     url |-> repoUrl],
    [id |-> "tool:create_list", name |-> "create_list", title |-> "Create List",
     description |-> "Creates a list within a folder or space.",
     url |-> repoUrl],
    [id |-> "tool:create_list_in_folder", name |-> "create_list_in_folder", title |-> "Create List in Folder",
     description |-> "Creates a list within a folder.",
     url |-> repoUrl],
    [id |-> "tool:get_list", name |-> "get_list", title |-> "Get List",
     description |-> "Retrieves a list by ID.",
     url |-> repoUrl],
    [id |-> "tool:update_list", name |-> "update_list", title |-> "Update List",
     description |-> "Updates a list.",
     url |-> repoUrl],
    [id |-> "tool:delete_list", name |-> "delete_list", title |-> "Delete List",
     description |-> "Deletes a list.",
     url |-> repoUrl],
    [id |-> "tool:create_folder", name |-> "create_folder", title |-> "Create Folder",
     description |-> "Creates a folder within a space.",
     url |-> repoUrl],
    [id |-> "tool:get_folder", name |-> "get_folder", title |-> "Get Folder",
     description |-> "Retrieves a folder by ID.",
     url |-> repoUrl],
    [id |-> "tool:update_folder", name |-> "update_folder", title |-> "Update Folder",
     description |-> "Updates a folder.",
     url |-> repoUrl],
    [id |-> "tool:delete_folder", name |-> "delete_folder", title |-> "Delete Folder",
     description |-> "Deletes a folder.",
     url |-> repoUrl],
    [id |-> "tool:get_space_tags", name |-> "get_space_tags", title |-> "Get Space Tags",
     description |-> "Lists all tags in a space.",
     url |-> repoUrl],
    [id |-> "tool:add_tag_to_task", name |-> "add_tag_to_task", title |-> "Add Tag to Task",
     description |-> "Adds a tag to a task.",
     url |-> repoUrl],
    [id |-> "tool:remove_tag_from_task", name |-> "remove_tag_from_task", title |-> "Remove Tag from Task",
     description |-> "Removes a tag from a task.",
     url |-> repoUrl],
    [id |-> "tool:get_workspace_members", name |-> "get_workspace_members", title |-> "Get Workspace Members",
     description |-> "Returns all members in the workspace.",
     url |-> repoUrl],
    [id |-> "tool:find_member_by_name", name |-> "find_member_by_name", title |-> "Find Member by Name",
     description |-> "Finds a member by name or email.",
     url |-> repoUrl],
    [id |-> "tool:resolve_assignees", name |-> "resolve_assignees", title |-> "Resolve Assignees",
     description |-> "Resolves names/emails to user IDs.",
     url |-> repoUrl],
    [id |-> "tool:create_document", name |-> "create_document", title |-> "Create Document",
     description |-> "Creates a document in a space, folder, or list.",
     url |-> repoUrl],
    [id |-> "tool:get_document", name |-> "get_document", title |-> "Get Document",
     description |-> "Gets details of a ClickUp document.",
     url |-> repoUrl],
    [id |-> "tool:list_documents", name |-> "list_documents", title |-> "List Documents",
     description |-> "Lists documents under a parent container.",
     url |-> repoUrl],
    [id |-> "tool:list_document_pages", name |-> "list_document_pages", title |-> "List Document Pages",
     description |-> "Lists pages in a document.",
     url |-> repoUrl],
    [id |-> "tool:get_document_pages", name |-> "get_document_pages", title |-> "Get Document Pages",
     description |-> "Gets content of specific document pages.",
     url |-> repoUrl],
    [id |-> "tool:create_document_page", name |-> "create_document_page", title |-> "Create Document Page",
     description |-> "Creates a new page in a document.",
     url |-> repoUrl],
    [id |-> "tool:update_document_page", name |-> "update_document_page", title |-> "Update Document Page",
     description |-> "Updates a document page.",
     url |-> repoUrl]>>

catalogSize == Len(toolCatalog)

\* s.split(/[\/\_\-\s]+/).filter(p => p.length > 0)
splitParts(s) == runs(s, "separator")

\* `${tool.id} ${tool.name} ${tool.title} ${tool.description}`.toLowerCase()
toolText(tool) ==
  toLowerCase(tool.id \o " " \o tool.name \o " " \o tool.title \o " "
              \o tool.description)

\* The text and the parts of every catalog entry, computed once: the catalog
\* never changes.
RECURSIVE textsRange(_, _)
textsRange(lo, hi) ==
  IF lo > hi THEN <<>>
  ELSE IF lo = hi THEN <<toolText(toolCatalog[lo])>>
  ELSE textsRange(lo, (lo + hi) \div 2) \o textsRange((lo + hi) \div 2 + 1, hi)

catalogTexts == textsRange(1, catalogSize)

RECURSIVE partsRange(_, _)
partsRange(lo, hi) ==
  IF lo > hi THEN <<>>
  ELSE IF lo = hi THEN <<splitParts(catalogTexts[lo])>>
  ELSE partsRange(lo, (lo + hi) \div 2) \o partsRange((lo + hi) \div 2 + 1, hi)

catalogParts == partsRange(1, catalogSize)

catalogIndex(tool) == CHOOSE i \in 1..catalogSize : toolCatalog[i].id = tool.id

\* Math.max(1, Math.floor(n * 0.6))
matchThreshold(n) == IF (n * 6) \div 10 > 1 THEN (n * 6) \div 10 ELSE 1

\* search.ts:35-47  the query parts of two characters or more that contain
\* or are contained in some tool part, against the threshold
partsMatch(queryParts, toolParts) ==
  Cardinality({i \in 1..Len(queryParts) :
                 /\ Len(queryParts[i]) >= 2
                 /\ \E j \in 1..Len(toolParts) :
                      \/ includes(toolParts[j], queryParts[i])
                      \/ includes(queryParts[i], toolParts[j])})
    >= matchThreshold(Len(queryParts))

\* search.ts:28-47 on the lower-cased query
loweredMatches(text, toolParts, q) ==
  includes(text, q) \/ partsMatch(splitParts(q), toolParts)

toolCatalogMatches(tool, query) ==
  loweredMatches(catalogTexts[catalogIndex(tool)],
                 catalogParts[catalogIndex(tool)], toLowerCase(query))

\* ------------------------------------------------- the Matching Engine
\* Tokens of s: the maximal runs of letters and digits, lower-cased.
tokens(s) == runs(toLowerCase(s), "token")

\* The significant query tokens (two characters or more) and those of them
\* that contain or are contained in a candidate token.
significant(qts) == {i \in 1..Len(qts) : Len(qts[i]) >= 2}
covered(qts, cts) ==
  {i \in significant(qts) :
     \E j \in 1..Len(cts) : includes(cts[j], qts[i]) \/ includes(qts[i], cts[j])}

\* A match needs 60% of the significant tokens and at least one; the score
\* grows with the coverage and with the whole query being a substring.
matchResult(n, m, whole) ==
  [isMatch |-> m >= 1 /\ m * 10 >= n * 6,
   score |-> (IF n = 0 THEN 0 ELSE (m * 100) \div n)
             + (IF whole THEN 100 ELSE 0)]

isNameMatch(name, query) ==
  matchResult(Cardinality(significant(tokens(query))),
              Cardinality(covered(tokens(query), tokens(name))),
              query # "" /\ includes(toLowerCase(name), toLowerCase(query)))

\* ---------------------------------------------------------- the search tool
\* a?.date_updated ? parseInt(a.date_updated, 10) : 0
dateOf(t) == IF t.date_updated # "" THEN parseInt(t.date_updated) ELSE Num(0)

\* A comparator's result as sort reads it: NaN counts as 0.
cmpResult(x) == IF x.nan THEN 0 ELSE x.v

\* A comparator that ignores the score.
rankByRecency(a, b) == cmpResult(Minus(dateOf(b.t), dateOf(a.t)))

\* search.ts:150-155
rankCmp(a, b) ==
  IF b.score # a.score THEN b.score - a.score
  ELSE cmpResult(Minus(dateOf(b.t), dateOf(a.t)))

\* A comparator that leaves the listing as it came.
keepListingOrder(a, b) == 0

\* search.ts:162-166
recencyCmp(a, b) == cmpResult(Minus(dateOf(b), dateOf(a)))

Cmp(which, a, b) == IF which = "rank" THEN rankCmp(a, b) ELSE recencyCmp(a, b)

\* Array.prototype.sort is stable: an element goes before the first one the
\* comparator puts it strictly before.
RECURSIVE InsertSorted(_, _, _)
InsertSorted(sorted, x, which) ==
  IF sorted = <<>> THEN <<x>>
  ELSE IF Cmp(which, x, Head(sorted)) < 0 THEN <<x>> \o sorted
  ELSE <<Head(sorted)>> \o InsertSorted(Tail(sorted), x, which)

RECURSIVE SortFrom(_, _, _, _)
SortFrom(arr, i, acc, which) ==
  IF i > Len(arr) THEN acc
  ELSE SortFrom(arr, i + 1, InsertSorted(acc, arr[i], which), which)

sort(arr, which) == SortFrom(arr, 1, <<>>, which)

\* String(x) of a value that is a string already.
String(x) == x

\* search.ts:100-102  params?.query ?? params?.search ?? params?.q ?? ''
queryValOf(params) ==
  IF params.isString THEN params.text
  ELSE IF IsSome(params.query) THEN Get(params.query)
  ELSE IF IsSome(params.search) THEN Get(params.search)
  ELSE IF IsSome(params.q) THEN Get(params.q)
  ELSE ""

\* A facade that takes the query as given.
queryUntrimmed(params) == String(queryValOf(params))

\* search.ts:103
queryOf(params) == trim(String(queryValOf(params)))

\* search.ts:104  ('limit' in params) ? params.limit : 10, as String(...) reads it
rawLimitOf(params) ==
  IF ~params.isString /\ IsSome(params.limit) THEN Get(params.limit) ELSE "10"

\* search.ts:105
limitOf(params) ==
  MathMax(Num(MinLimit), MathMin(parseInt(rawLimitOf(params)), Num(MaxLimit)))

\* search.ts:279  (params?.query || '').toString().trim()
errorQueryOf(params) ==
  IF ~params.isString /\ IsSome(params.query) THEN trim(Get(params.query))
  ELSE ""

\* toolCatalog.filter(t => toolCatalogMatches(t, query))
catalogMatches(query) ==
  filter(toolCatalog,
         [i \in 1..catalogSize |-> toolCatalogMatches(toolCatalog[i], query)])

toolItem(t) == [id |-> t.id, title |-> t.title]
taskItem(s) == [id |-> s.id, title |-> s.name]

toolItems(tools) == [i \in 1..Len(tools) |-> toolItem(tools[i])]
taskItems(tasks) == [i \in 1..Len(tasks) |-> taskItem(tasks[i])]
\* The titles in place of the ids.
titlesOf(items) == [i \in 1..Len(items) |-> items[i].title]

idsOf(items) == [i \in 1..Len(items) |-> String(items[i].id)]

Response(ids, objectIds, results, path, called) ==
  [ids |-> ids, objectIds |-> objectIds, results |-> results,
   structuredContent |-> [ids |-> ids, objectIds |-> objectIds,
                          results |-> results],
   toolResult |-> results, path |-> path, backendCalled |-> called]

\* search.ts:116-131
catalogResponse(toolMatches, path, called) ==
  Response(idsOf(toolMatches), idsOf(toolMatches), toolMatches, path, called)

\* search.ts:109-132  no query: the first catalog entries
emptyQueryResponse(limit) ==
  catalogResponse(toolItems(slice0(toolCatalog, limit)), "empty", FALSE)

\* search.ts:145-148
RECURSIVE scoredFrom(_, _, _)
scoredFrom(summaries, query, i) ==
  IF i > Len(summaries) THEN <<>>
  ELSE <<[t |-> summaries[i], match |-> isNameMatch(summaries[i].name, query)]>>
       \o scoredFrom(summaries, query, i + 1)

\* search.ts:149
RECURSIVE matchedOnly(_)
matchedOnly(scored) ==
  IF scored = <<>> THEN <<>>
  ELSE IF Head(scored).match.isMatch
    THEN <<[t |-> Head(scored).t, score |-> Head(scored).match.score]>>
         \o matchedOnly(Tail(scored))
  ELSE matchedOnly(Tail(scored))

\* search.ts:144-156
rankedOf(summaries, query, limit) ==
  slice0(sort(matchedOnly(scoredFrom(summaries, query, 1)), "rank"), limit)

\* search.ts:160-167  the most recently updated items
recentOf(summaries, limit) == slice0(sort(summaries, "recency"), limit)

\* A facade without the catalog tier.
noFallbackTools(query, limit, taken, enabled) == <<>>

\* search.ts:193-206  the catalog entries appended to the recent items
fallbackToolsOf(query, limit, taken, enabled) ==
  IF enabled
    THEN slice0(catalogMatches(query),
                MathMax(Num(0), Minus(limit, Num(taken))))
    ELSE <<>>

\* search.ts:208-227  "Enforce limit"
limitedResponse(structuredResults, objectIds, limit) ==
  Response(slice0(objectIds, limit), slice0(objectIds, limit),
           slice0(structuredResults, limit), "fallback", TRUE)

\* search.ts:173-206
fallbackResults(fallback, query, limit, enabled) ==
  taskItems(fallback)
  \o toolItems(fallbackToolsOf(query, limit, Len(fallback), enabled))

fallbackLimited(structuredResults, limit) ==
  limitedResponse(structuredResults, idsOf(structuredResults), limit)

\* search.ts:158-228  no match: recent items, then matching catalog entries
fallbackResponse(summaries, query, limit, enabled) ==
  fallbackLimited(
    fallbackResults(recentOf(summaries, limit), query, limit, enabled), limit)

rankedItems(ranked) == [i \in 1..Len(ranked) |-> taskItem(ranked[i].t)]

\* search.ts:230-273
rankedResponse(ranked) ==
  catalogResponse(rankedItems(ranked), "ranked", TRUE)

\* search.ts:282  how many catalog matches the error path keeps
errorPathLimit(limit) == Num(ErrorPathCap)

\* search.ts:279  the query the error path matches the catalog against
errorPathQuery(params) == errorQueryOf(params)

\* search.ts:274-317  the backend call threw
errorResponse(params, limit, enabled) ==
  IF enabled
    THEN catalogResponse(
           toolItems(slice0(catalogMatches(errorPathQuery(params)),
                            errorPathLimit(limit))), "error", TRUE)
    ELSE Response(<<>>, <<>>, <<>>, "error", TRUE)

\* search.ts:144-273  the listing came back
listedResponse(ranked, summaries, query, limit, enabled) ==
  IF Len(ranked) = 0
    THEN fallbackResponse(summaries, query, limit, enabled)
    ELSE rankedResponse(ranked)

searchWith(params, query, limit, enabled, be) ==
  IF query = "" THEN emptyQueryResponse(limit)
  ELSE IF ~be.ok THEN errorResponse(params, limit, enabled)
  ELSE listedResponse(rankedOf(be.summaries, query, limit), be.summaries,
                      query, limit, enabled)

\* search.ts:98-318
handleSearch(params, enabled, be) ==
  searchWith(params, queryOf(params), limitOf(params), enabled, be)

\* ------------------------------------------------------------------ state
VARIABLES
  openAiToolIndexFallback,  \* config.openAiToolIndexFallback
  backend,                  \* what taskService.getTaskSummaries does
  searchCall,               \* the parameters of the last search call
  searchResp,               \* what it returned
  streamable,               \* transports.streamable: session id -> transport
  sse,                      \* transports.sse: session id -> transport
  transport,                \* every transport created so far
  inflight,                 \* requests suspended inside a transport
  last,                     \* the last request and what the handler did
  rest                      \* the last fetch call or stateless request and its answer

searchVars == <<openAiToolIndexFallback, backend, searchCall, searchResp>>
sessionVars == <<streamable, sse, transport, inflight, last>>
restVars == <<rest>>
vars == <<openAiToolIndexFallback, backend, searchCall, searchResp,
          streamable, sse, transport, inflight, last, rest>>

\* ------------------------------------------------------------- the inputs
Task1 == [id |-> "t1", name |-> "Invoice #1", date_updated |-> "200"]
Task2 == [id |-> "t2", name |-> "Send invoice to client", date_updated |-> "300"]
Task3 == [id |-> "t3", name |-> "Unrelated task", date_updated |-> ""]
TaskPool == {Task1, Task2, Task3}

\* The listings of at most MaxItems different tasks, in any order.
Listings ==
  {s \in UNION {[1..n -> TaskPool] : n \in 0..MaxItems} :
     \A i, j \in 1..Len(s) : i # j => s[i] # s[j]}

FailingBackend == [ok |-> FALSE, summaries |-> <<>>]
Backends == {[ok |-> TRUE, summaries |-> s] : s \in Listings} \cup {FailingBackend}

Queries == {"", "  ", "invoice", "Invoice #1", " Folder", "zzz", "get-task"}
IntLimits == {-1, 0, 1, 2, 12, 50, 51}
RawLimits == {ToString(n) : n \in IntLimits} \cup {"abc"}

Params(qy, sr, qq, lm) ==
  [isString |-> FALSE, text |-> "", query |-> qy, search |-> sr, q |-> qq,
   limit |-> lm]

\* The query under the name query with every limit; under search, under q
\* and as a bare string with some.
SearchParams ==
  {Params(qy, None, None, lm) :
     qy \in {None} \cup {Some(x) : x \in Queries},
     lm \in {None} \cup {Some(x) : x \in RawLimits}}
  \cup {Params(None, Some(x), None, lm) :
          x \in Queries, lm \in {None, Some("1")}}
  \cup {Params(None, None, Some(x), lm) :
          x \in Queries, lm \in {None, Some("1")}}
  \cup {[isString |-> TRUE, text |-> x, query |-> None, search |-> None,
         q |-> None, limit |-> None] : x \in Queries}

NoCall == [isString |-> TRUE, text |-> "", query |-> None, search |-> None,
           q |-> None, limit |-> None]
NoResp == Response(<<>>, <<>>, <<>>, "none", FALSE)

\* -------------------------------------------------------- session registry
\* The session id of the n-th transport: the generator's time and random
\* parts (sessionIdGenerator) and randomUUID() never repeat, so the id is a
\* function of the transport.
\* A generator that repeats itself.
repeatedSessionId(n) == "session_1"

streamableSessionId(n) == "session_" \o ToString(n)
sseSessionId(n) == "uuid_" \o ToString(n)

\* The registries are object literals: a key of Object.prototype reads as an
\* inherited value that is not a transport.
ObjectPrototypeKeys == {"constructor", "toString", "valueOf", "hasOwnProperty"}

\* registry[sessionId]
lookup(registry, sessionId) ==
  IF sessionId \in DOMAIN registry
    THEN [kind |-> "transport", t |-> registry[sessionId]]
  ELSE IF sessionId \in ObjectPrototypeKeys THEN [kind |-> "inherited", t |-> 0]
  ELSE [kind |-> "undefined", t |-> 0]

\* An initialization callback that registers nothing.
forgetSession(registry, sessionId, t) == registry

\* registry[sessionId] = t
register(registry, sessionId, t) ==
  [k \in DOMAIN registry \cup {sessionId} |->
     IF k = sessionId THEN t ELSE registry[k]]

\* A close callback that empties the registry.
removeAll(registry, sessionId) == [k \in {} |-> 0]

\* A close callback that deletes nothing.
keepEntry(registry, sessionId) == registry

\* delete registry[sessionId]
remove(registry, sessionId) ==
  [k \in DOMAIN registry \ {sessionId} |-> registry[k]]

EmptyRegistry == [k \in {} |-> 0]
NoTransports == <<>>

\* ------------------------------------------------------- the search tool
\* A tool call of search: the whole of handleSearch runs.
CallSearch(params) ==
  /\ searchResp = NoResp
  /\ searchCall' = params
  /\ searchResp' = handleSearch(params, openAiToolIndexFallback, backend)
  /\ UNCHANGED <<openAiToolIndexFallback, backend>>
  /\ UNCHANGED <<sessionVars, restVars>>

\* The response has been delivered to the caller.
SearchDone ==
  /\ searchResp # NoResp
  /\ searchCall' = NoCall
  /\ searchResp' = NoResp
  /\ UNCHANGED <<openAiToolIndexFallback, backend>>
  /\ UNCHANGED <<sessionVars, restVars>>

\* ------------------------------------------------------------ fetch tool
\* What the backend keeps of a task besides its summary: status.status,
\* list.name, url, text_content and description, each possibly missing.
TaskDetail(id) ==
  IF id = "t1"
    THEN [status |-> Some("open"), list |-> Some("Billing"),
          url |-> Some("https://app.clickup.com/t/t1"),
          text_content |-> Some("Send the invoice"), description |-> None]
  ELSE IF id = "t2"
    THEN [status |-> None, list |-> None, url |-> None,
          text_content |-> None, description |-> Some("Call the client")]
  ELSE [status |-> None, list |-> None, url |-> None,
        text_content |-> None, description |-> None]

\* A backend that has a task for every id.
anyTask(id, be) == Some(CHOOSE s \in TaskPool : TRUE)

\* taskService.getTask(id): the task, or nothing when the call throws.
getTask(id, be) ==
  IF be.ok /\ \E i \in 1..Len(be.summaries) : be.summaries[i].id = id
    THEN Some(CHOOSE s \in TaskPool : s.id = id)
    ELSE None

\* error.message of what taskService.getTask throws: the backend's own words
\* for a task it does not have and for a call it could not make.
getTaskError(id, be) ==
  IF be.ok THEN "Task not found" ELSE "Backend unavailable"

\* A prefix test that never finds the prefix.
noPrefix(s, prefix) == FALSE

\* id.startsWith('tool:')
startsWith(s, prefix) == Len(s) >= Len(prefix) /\ SubSeq(s, 1, Len(prefix)) = prefix

catalogFind(id) ==
  IF \E i \in 1..catalogSize : toolCatalog[i].id = id
    THEN Some(toolCatalog[CHOOSE i \in 1..catalogSize : toolCatalog[i].id = id])
    ELSE None

\* x ?? y
Coalesce(x, y) == IF IsSome(x) THEN x ELSE y

\* x || y for strings that may be missing
OrElse(x, y) == IF IsSome(x) /\ Get(x) # "" THEN Get(x) ELSE y

\* parts.join('\n')
RECURSIVE join(_)
join(parts) ==
  IF Len(parts) = 0 THEN ""
  ELSE IF Len(parts) = 1 THEN parts[1]
  ELSE parts[1] \o "\n" \o join(Tail(parts))

DocumentFields == {"id", "title", "text", "url", "metadata", "raw"}

NoMetadata == [name |-> None, category |-> None, status |-> None, list |-> None]

\* sponsorService.createErrorResponse(message, data): no document field.
createErrorResponse(message, data, calls) ==
  [isError |-> TRUE, fields |-> {"content", "isError"},
   id |-> "", title |-> "", text |-> "", url |-> "", metadata |-> NoMetadata,
   raw |-> None, message |-> message, data |-> data, getTaskCalls |-> calls]

\* The flat document with its mirrors in content and structuredContent.
Document(id, title, text, url, metadata, raw, calls) ==
  [isError |-> FALSE,
   fields |-> DocumentFields \cup {"content", "structuredContent"},
   id |-> id, title |-> title, text |-> text, url |-> url,
   metadata |-> metadata, raw |-> Some(raw), message |-> "", data |-> "",
   getTaskCalls |-> calls]

toolDocumentText(entry) ==
  entry.title \o "\n\n" \o entry.description \o "\n\nReference: " \o entry.url

toolDocument(entry) ==
  Document(entry.id, entry.title, toolDocumentText(entry), entry.url,
           [NoMetadata EXCEPT !.name = Some(entry.name), !.category = Some("tool")],
           entry, 0)

taskDocument(task) ==
  LET d == TaskDetail(task.id)
      status == Get(Coalesce(d.status, Some("unknown")))
      listName == Get(Coalesce(d.list, Some("")))
      url == OrElse(d.url, "")
      description == Get(Coalesce(d.text_content, Coalesce(d.description, Some(""))))
      textParts == (IF description # "" THEN <<description>> ELSE <<>>)
                   \o (IF status # "" THEN <<"Status: " \o status>> ELSE <<>>)
                   \o (IF listName # "" THEN <<"List: " \o listName>> ELSE <<>>)
                   \o (IF url # "" THEN <<url>> ELSE <<>>)
  IN  Document(task.id, task.name, join(textParts), url,
               [NoMetadata EXCEPT !.status = Some(status),
                                  !.list = IF listName # "" THEN Some(listName) ELSE None],
               task, 1)

\* handleFetch({id}); an id of "" stands for a missing one.  getTaskCalls counts
\* the calls of taskService.getTask the run made.
handleFetch(id, be) ==
  IF id = "" THEN createErrorResponse("Missing required parameter: id", "", 0)
  ELSE IF startsWith(id, "tool:")
    THEN IF IsSome(catalogFind(id))
           THEN toolDocument(Get(catalogFind(id)))
           ELSE createErrorResponse("Unknown tool id: " \o id, "", 0)
  ELSE IF IsSome(getTask(id, be))
    THEN taskDocument(Get(getTask(id, be)))
  ELSE createErrorResponse("Fetch failed", getTaskError(id, be), 1)

\* ------------------------------------------------------- session handlers
\* What a handler did with a request.
Answer(ep, sid, path, outcome, status, code, message, by) ==
  [ep |-> ep, sid |-> sid, path |-> path, outcome |-> outcome,
   status |-> status, code |-> code, message |-> message, by |-> by,
   recovery |-> "none"]

\* The same answer, given after path recovery ended as said.
After(recovery, answer) == [answer EXCEPT !.recovery = recovery]

Reply(ep, sid, outcome, status, code, message, by) ==
  Answer(ep, sid, "", outcome, status, code, message, by)

NoRequest == Reply("none", None, "none", 0, 0, "", 0)

\* The status a transport answers with is the transport's own business.
Handled(ep, sid, t) == Reply(ep, sid, "transport", 0, 0, "", t)

\* transports.streamable[sessionId]
streamableTransportOf(sessionId) == lookup(streamable, sessionId)

\* One registry for both kinds.
anyTransportOf(sessionId) ==
  IF sessionId \in DOMAIN streamable THEN lookup(streamable, sessionId)
  ELSE lookup(sse, sessionId)

\* transports.sse[sessionId]
sseTransportOf(sessionId) == lookup(sse, sessionId)

Transport(kind, sessionId) ==
  [kind |-> kind, sessionId |-> sessionId, closed |-> FALSE]

nextTransport == Len(transport) + 1

closeOf(t) == [transport EXCEPT ![t].closed = TRUE]

\* The ids a client can present: those of the transports made so far (the
\* empty string for one that has none yet), one that was never issued, a key
\* of Object.prototype.
KnownIds ==
  {transport[t].sessionId : t \in 1..Len(transport)} \cup
  {"never-issued", "constructor"}

SessionHeaders == {None} \cup {Some(s) : s \in KnownIds}

\* !sessionId
absent(sid) == sid = None \/ Get(sid) = ""

Bodies == {"initialize", "other"}

\* POST /mcp
PostMcp(sid, body) ==
  LET found == IF absent(sid) THEN [kind |-> "undefined", t |-> 0]
               ELSE streamableTransportOf(Get(sid))
      t == nextTransport
  IN  /\ last = NoRequest
      /\ IF found.kind = "transport"
           THEN /\ inflight' = inflight \cup {found.t}
                /\ last' = Handled("POST /mcp", sid, found.t)
                /\ UNCHANGED <<streamable, sse, transport>>
         ELSE IF found.kind = "inherited"
           \* transport.handleRequest is not a function: the catch answers
           THEN /\ last' = Reply("POST /mcp", sid, "threw", 500, -32603,
                                 "Internal server error", 0)
                /\ UNCHANGED <<streamable, sse, transport, inflight>>
         ELSE IF absent(sid)
           THEN /\ Len(transport) < MaxTransports
                /\ IF body = "initialize"
                     \* the transport generates its id and
                     \* onsessioninitialized registers it
                     THEN /\ transport' = Append(transport,
                               Transport("streamable", streamableSessionId(t)))
                          /\ streamable' = register(streamable,
                                                    streamableSessionId(t), t)
                     ELSE /\ transport' = Append(transport,
                                                 Transport("streamable", ""))
                          /\ UNCHANGED streamable
                /\ inflight' = inflight \cup {t}
                /\ last' = Handled("POST /mcp", sid, t)
                /\ UNCHANGED sse
         ELSE /\ last' = Reply("POST /mcp", sid, "rejected", 400, -32000,
                     "Bad Request: No valid session ID provided", 0)
              /\ UNCHANGED <<streamable, sse, transport, inflight>>
      /\ UNCHANGED <<searchVars, restVars>>

\* The request of a GET /mcp or DELETE /mcp as handleSessionRequest reads it.
McpRequest(forwardedUri, originalUrl, q, limit, id) ==
  [forwardedUri |-> forwardedUri, originalUrl |-> originalUrl, q |-> q,
   limit |-> limit, id |-> id]

\* The forwarding headers of a request, each missing or a string.
ForwardHeaders(xOriginalUri, xRewriteUrl, xForwardedUri, xForwardedUrl) ==
  [xOriginalUri |-> xOriginalUri, xRewriteUrl |-> xRewriteUrl,
   xForwardedUri |-> xForwardedUri, xForwardedUrl |-> xForwardedUrl]

NoForwardHeaders == ForwardHeaders(None, None, None, None)

\* a || b for a header that may be missing
orHeader(a, b) == IF IsSome(a) /\ Get(a) # "" THEN a ELSE b

\* The same chain read from its last header to its first.
lastHeaderFirst(h) ==
  orHeader(h.xForwardedUrl,
    orHeader(h.xForwardedUri, orHeader(h.xRewriteUrl, h.xOriginalUri)))

\* req.headers['x-original-uri'] || req.headers['x-rewrite-url']
\*   || req.headers['x-forwarded-uri'] || req.headers['x-forwarded-url']
forwardedUriOf(h) ==
  orHeader(h.xOriginalUri,
    orHeader(h.xRewriteUrl, orHeader(h.xForwardedUri, h.xForwardedUrl)))

\* The value ?q[toString]=1 parses to: an object whose toString is the
\* string '1', so that calling q.toString() throws a TypeError.
NoToString == "q[toString]=1"

McpRequests ==
  { McpRequest(None, "/mcp", "", "", ""),
    McpRequest(forwardedUriOf(ForwardHeaders(None, None, Some("/mcp/search"), None)),
               "/mcp", "", "", ""),
    McpRequest(forwardedUriOf(ForwardHeaders(Some("/mcp/search"), None, None, None)),
               "/mcp", NoToString, "", ""),
    McpRequest(None, "/mcp?next=/mcp/fetch", "", "", "t1") }

\* forwardedUri || req.originalUrl
effectivePath(req) ==
  IF IsSome(req.forwardedUri) /\ Get(req.forwardedUri) # ""
    THEN Get(req.forwardedUri) ELSE req.originalUrl

\* How the recovery block of handleSessionRequest ends: with a REST search,
\* with a REST fetch, in its catch, or without having matched.
recoveryOf(req) ==
  IF includes(effectivePath(req), "/mcp/search")
    THEN IF req.q = NoToString THEN "threw" ELSE "search"
  ELSE IF includes(effectivePath(req), "/mcp/fetch") THEN "fetch"
  ELSE "none"

\* Math.min(parseInt(req.query.limit || '10') || 10, 50)
recoveredLimit(req) ==
  MathMin(NumOr(parseInt(IF req.limit = "" THEN ToString(RestDefaultLimit)
                         ELSE req.limit),
                Num(RestDefaultLimit)),
          Num(RestMaxLimit))

\* A recovered search that is rejected like a session request.
searchNeedsSession(req, enabled, be) == [status |-> 400, count |-> 0]

\* The REST answer of the recovered /mcp/search.
recoveredSearch(req, enabled, be) ==
  IF trim(req.q) = ""
    THEN [status |-> 200, count |-> Len(slice0(toolCatalog, recoveredLimit(req)))]
    ELSE [status |-> 200,
          count |-> Len(handleSearch(
                          Params(Some(req.q), None, None,
                                 Some(ToString(recoveredLimit(req).v))),
                          enabled, be).results)]

\* The REST answer of the recovered /mcp/fetch.
recoveredFetch(req, be) ==
  IF req.id = "" THEN [status |-> 400, count |-> 0]
  ELSE IF handleFetch(req.id, be).isError THEN [status |-> 404, count |-> 0]
  ELSE [status |-> 200, count |-> 1]

\* GET /mcp and DELETE /mcp
HandleSessionRequest(method, sid, req) ==
  LET ep == method \o " /mcp"
      found == IF absent(sid) THEN [kind |-> "undefined", t |-> 0]
               ELSE streamableTransportOf(Get(sid))
      recovery == recoveryOf(req)
  IN  /\ last = NoRequest
      /\ IF recovery = "search"
           THEN /\ last' = After(recovery,
                     Answer(ep, sid, effectivePath(req), "rest",
                       recoveredSearch(req, openAiToolIndexFallback, backend).status,
                       0, "", 0))
                /\ UNCHANGED <<streamable, sse, transport, inflight>>
         ELSE IF recovery = "fetch"
           THEN /\ last' = After(recovery,
                     Answer(ep, sid, effectivePath(req), "rest",
                            recoveredFetch(req, backend).status, 0, "", 0))
                /\ UNCHANGED <<streamable, sse, transport, inflight>>
         ELSE IF found.kind = "undefined"
           THEN /\ last' = After(recovery,
                     Answer(ep, sid, effectivePath(req), "rejected", 400,
                       -32000, "Bad Request: Mcp-Session-Id header is required", 0))
                /\ UNCHANGED <<streamable, sse, transport, inflight>>
         ELSE IF found.kind = "inherited"
           \* transport.handleRequest is not a function and nothing catches
           THEN /\ \E status \in {0, 500} :
                     last' = After(recovery,
                               Answer(ep, sid, effectivePath(req), "threw",
                                      status, 0, "", 0))
                /\ UNCHANGED <<streamable, sse, transport, inflight>>
         ELSE IF method = "DELETE"
           \* the transport terminates its session: close() runs onclose
           THEN /\ transport' = closeOf(found.t)
                /\ streamable' = remove(streamable, Get(sid))
                /\ last' = After(recovery,
                             Answer(ep, sid, effectivePath(req), "transport",
                                    0, 0, "", found.t))
                /\ UNCHANGED <<sse, inflight>>
         ELSE /\ inflight' = inflight \cup {found.t}
              /\ last' = After(recovery,
                           Answer(ep, sid, effectivePath(req), "transport",
                                  0, 0, "", found.t))
              /\ UNCHANGED <<streamable, sse, transport>>
      /\ UNCHANGED <<searchVars, restVars>>

\* GET /sse
GetSse ==
  LET t == nextTransport
  IN  /\ last = NoRequest
      /\ Len(transport) < MaxTransports
      /\ transport' = Append(transport, Transport("sse", sseSessionId(t)))
      /\ sse' = register(sse, sseSessionId(t), t)
      /\ last' = Reply("GET /sse", None, "created", 200, 0, "", t)
      /\ UNCHANGED <<streamable, inflight>>
      /\ UNCHANGED <<searchVars, restVars>>

\* POST /messages?sessionId=
PostMessages(sid) ==
  LET found == IF sid = None THEN [kind |-> "undefined", t |-> 0]
               ELSE sseTransportOf(Get(sid))
  IN  /\ last = NoRequest
      /\ IF found.kind = "transport"
           THEN /\ inflight' = inflight \cup {found.t}
                /\ last' = Handled("POST /messages", sid, found.t)
         ELSE IF found.kind = "inherited"
           \* transport.handlePostMessage is not a function, nothing catches
           THEN /\ \E status \in {0, 500} :
                     last' = Reply("POST /messages", sid, "threw", status, 0, "", 0)
                /\ UNCHANGED inflight
         ELSE /\ last' = Reply("POST /messages", sid, "rejected", 400, 0,
                               "No transport found for sessionId", 0)
              /\ UNCHANGED inflight
      /\ UNCHANGED <<streamable, sse, transport>>
      /\ UNCHANGED <<searchVars, restVars>>

\* The answer has gone out and the handler has returned: the server is ready
\* for the next request. Requests are taken one at a time; a handler that
\* awaits a transport stays in inflight.
Respond ==
  /\ last # NoRequest
  /\ last' = NoRequest
  /\ UNCHANGED <<streamable, sse, transport, inflight>>
  /\ UNCHANGED <<searchVars, restVars>>

\* res.on('close') of a GET /sse
CloseSse(t) ==
  /\ transport[t].kind = "sse"
  /\ ~transport[t].closed
  /\ transport' = closeOf(t)
  /\ sse' = remove(sse, transport[t].sessionId)
  /\ last' = NoRequest
  /\ UNCHANGED <<streamable, inflight>>
  /\ UNCHANGED <<searchVars, restVars>>

\* transport.onclose of a request/response transport
CloseStreamable(t) ==
  /\ transport[t].kind = "streamable"
  /\ ~transport[t].closed
  /\ transport' = closeOf(t)
  /\ streamable' = IF transport[t].sessionId # ""
                     THEN remove(streamable, transport[t].sessionId)
                     ELSE streamable
  /\ last' = NoRequest
  /\ UNCHANGED <<sse, inflight>>
  /\ UNCHANGED <<searchVars, restVars>>

\* A handle read from the registry again when the handler resumes.
lookedUpAgain(t) ==
  IF transport[t].kind = "sse" THEN lookup(sse, transport[t].sessionId)
  ELSE lookup(streamable, transport[t].sessionId)

\* The handle a suspended handler holds: its local constant 'transport',
\* resolved before the await.
heldHandle(t) == [kind |-> "transport", t |-> t]

\* A request suspended in a transport completes and its handler resumes; a
\* handler whose handle were not a transport would throw.
Finish(t) ==
  /\ t \in inflight
  /\ inflight' = inflight \ {t}
  /\ last' = IF heldHandle(t).kind = "transport" THEN NoRequest
             ELSE Reply("resume", None, "threw", 500, -32603,
                        "Internal server error", 0)
  /\ UNCHANGED <<streamable, sse, transport>>
  /\ UNCHANGED <<searchVars, restVars>>
\* ------------------------------------------------------ REST fetch aliases
\* The ids a caller asks for: tasks of the pool, a task nobody has, catalog
\* entries, and tool-shaped ids the catalog does not have.
FetchIds == {"t1", "t2", "t3", "t9", "tool:search", "tool:get_task",
             "tool:nope", "tool:"}

\* An id parameter: missing, empty, or one of the ids.
IdParams == {None, Some("")} \cup {Some(id) : id \in FetchIds}

FetchAliases == {"/fetch", "/mcp/fetch", "/chatgpt/fetch"}
Methods == {"GET", "POST"}

\* The backends the stateless endpoints are run against: the failing one and
\* those listing a run of at most MaxItems tasks of the pool.
PoolOrder == <<Task1, Task2, Task3>>
RestListings ==
  {s \in {SubSeq(PoolOrder, a, b) : a \in 1..Len(PoolOrder), b \in 0..Len(PoolOrder)} :
     Len(s) <= MaxItems}
RestBackends ==
  {[ok |-> TRUE, summaries |-> s] : s \in RestListings} \cup {FailingBackend}

NoRestMetadata ==
  [title |-> None, url |-> None, name |-> None, category |-> None,
   source |-> None, status |-> None, list |-> None]

\* res.status(status).json({ error, message })
RestError(status, error, message) ==
  [status |-> status, id |-> "", content |-> "", metadata |-> NoRestMetadata,
   error |-> error, message |-> message]

\* res.json({ id, content, metadata })
RestDocument(id, content, metadata) ==
  [status |-> 200, id |-> id, content |-> content, metadata |-> metadata,
   error |-> "", message |-> ""]

\* 'id' in result && 'text' in result
hasDocument(result) == "id" \in result.fields /\ "text" \in result.fields

\* GET and POST of /fetch and of /mcp/fetch
fetchAlias(id, be) ==
  IF ~IsSome(id) \/ Get(id) = ""
    THEN RestError(400, "Missing required parameter: id", "")
    ELSE LET result == handleFetch(Get(id), be)
         IN  IF hasDocument(result)
               THEN RestDocument(result.id, result.text,
                      [NoRestMetadata EXCEPT
                         !.title = Some(result.title),
                         !.url = Some(result.url),
                         !.name = result.metadata.name,
                         !.category = result.metadata.category,
                         !.status = result.metadata.status,
                         !.list = result.metadata.list])
               ELSE RestError(404, "Document not found", "")

\* GET and POST of /chatgpt/fetch
chatgptFetchAlias(id, be) ==
  IF ~IsSome(id) \/ Get(id) = ""
    THEN RestError(400, "Bad Request", "Missing required parameter: id")
    ELSE LET result == handleFetch(Get(id), be)
         IN  IF hasDocument(result)
               THEN RestDocument(result.id, result.text,
                      [NoRestMetadata EXCEPT
                         !.title = Some(result.title),
                         !.url = Some(result.url),
                         !.category = Coalesce(result.metadata.category,
                                               Some("document")),
                         !.source = IF startsWith(Get(id), "tool:")
                                      THEN Some("tool_catalog")
                                      ELSE Some("clickup")])
               ELSE RestError(404, "Not Found",
                              "Document with id '" \o Get(id) \o "' not found")

fetchAliasOf(alias, id, be) ==
  IF alias = "/chatgpt/fetch" THEN chatgptFetchAlias(id, be)
  ELSE fetchAlias(id, be)

NoRest == [kind |-> "none"]

\* A tool call of fetch: the whole of handleFetch runs.
CallFetch(id) ==
  /\ rest = NoRest
  /\ rest' = [kind |-> "fetch", id |-> id,
              result |-> handleFetch(IF IsSome(id) THEN Get(id) ELSE "", backend)]
  /\ UNCHANGED <<searchVars, sessionVars>>

\* GET or POST of a REST fetch alias.
RestFetch(alias, method, id) ==
  /\ rest = NoRest
  /\ rest' = [kind |-> "restFetch", alias |-> alias, method |-> method,
              id |-> id, answer |-> fetchAliasOf(alias, id, backend)]
  /\ UNCHANGED <<searchVars, sessionVars>>

\* The answer has been delivered to the caller.
RestDone ==
  /\ rest # NoRest
  /\ rest' = NoRest
  /\ UNCHANGED <<searchVars, sessionVars>>

\* ----------------------------------------------------- REST search aliases
\* The parameters of a search request, each missing or a string: the query
\* string of a GET, the JSON body of a POST.
RestParams(query, q, limit, top_k, k, n) ==
  [query |-> query, q |-> q, limit |-> limit, top_k |-> top_k, k |-> k, n |-> n]

QueryNames == {"query", "q"}
LimitNames == {"limit", "top_k", "k", "n"}
RestQueries == {"", "invoice"}
RestLimits == {-1, 0, 2, 51}

\* Requests that carry at most one query parameter and one limit parameter.
RestRequest(qn, qv, ln, lv) ==
  RestParams(IF qn = "query" THEN Some(qv) ELSE None,
             IF qn = "q" THEN Some(qv) ELSE None,
             IF ln = "limit" THEN Some(lv) ELSE None,
             IF ln = "top_k" THEN Some(lv) ELSE None,
             IF ln = "k" THEN Some(lv) ELSE None,
             IF ln = "n" THEN Some(lv) ELSE None)

RestRequests ==
  {RestRequest(qn, qv, ln, ToString(lv)) :
     qn \in QueryNames, qv \in RestQueries, ln \in LimitNames, lv \in RestLimits}
  \cup {RestRequest(qn, qv, "none", "") : qn \in QueryNames, qv \in RestQueries}
  \cup {RestRequest("none", "", ln, ToString(lv)) :
          ln \in LimitNames, lv \in RestLimits}
  \cup {RestRequest("none", "", "none", "")}

SearchAliases == {"/search", "/mcp/search", "/chatgpt/search"}

\* a || b for a parameter that may be missing
Either(a, b) == IF IsSome(a) /\ Get(a) # "" THEN a ELSE b

\* Number(x) of a string
toNumber(s) ==
  IF trim(s) = "" THEN Num(0)
  ELSE IF ~parseInt(s).nan /\ ToString(parseInt(s).v) = trim(s) THEN parseInt(s)
  ELSE NaN

\* String(x) of a number
numberText(x) == IF x.nan THEN "NaN" ELSE ToString(x.v)

\* Math.min(parseInt(rawLimit) || 10, 50)
restLimit(rawLimit) ==
  MathMin(NumOr(parseInt(rawLimit), Num(RestDefaultLimit)), Num(RestMaxLimit))

\* GET /search and GET /mcp/search: query and limit
getQuery(p) == Get(Either(p.q, Either(p.query, Some(""))))
getLimit(p) ==
  restLimit(Get(Either(p.limit, Either(p.top_k, Either(p.k, Either(p.n,
                  Some(ToString(RestDefaultLimit))))))))

\* POST /search and POST /mcp/search: query and limit
postQuery(p) == Get(Coalesce(p.query, Some("")))
postLimit(p) ==
  restLimit(Get(Coalesce(p.limit, Coalesce(p.top_k, Coalesce(p.k, Coalesce(p.n,
                  Some(ToString(RestDefaultLimit))))))))

\* GET /chatgpt/search: query and limit
chatgptGetQuery(p) == Get(Either(p.query, Either(p.q, Some(""))))
chatgptGetLimit(p) == restLimit(IF IsSome(p.limit) THEN Get(p.limit) ELSE "undefined")

\* POST /chatgpt/search: query and limit
chatgptPostQuery(p) == Get(Coalesce(p.query, Some("")))
chatgptPostLimit(p) ==
  MathMin(toNumber(Get(Coalesce(p.limit, Some(ToString(RestDefaultLimit))))),
          Num(RestMaxLimit))

aliasQuery(alias, method, p) ==
  IF alias = "/chatgpt/search"
    THEN IF method = "GET" THEN chatgptGetQuery(p) ELSE chatgptPostQuery(p)
    ELSE IF method = "GET" THEN getQuery(p) ELSE postQuery(p)

aliasLimit(alias, method, p) ==
  IF alias = "/chatgpt/search"
    THEN IF method = "GET" THEN chatgptGetLimit(p) ELSE chatgptPostLimit(p)
    ELSE IF method = "GET" THEN getLimit(p) ELSE postLimit(p)

\* GET /search, POST /search and GET /mcp/search list the catalog when the
\* search returned nothing; the other three aliases do not.
fillsEmpty(alias, method) ==
  alias = "/search" \/ (alias = "/mcp/search" /\ method = "GET")

\* toolCatalog.slice(0, limit).map(...)
catalogItems(limit) == toolItems(slice0(toolCatalog, limit))

\* The body of a search alias once query and limit are read.
searchAlias(query, limit, fills, enabled, be) ==
  IF trim(query) = "" THEN catalogItems(limit)
  ELSE LET items == handleSearch(Params(Some(query), None, None,
                                        Some(numberText(limit))),
                                 enabled, be).results
       IN  IF Len(items) = 0 /\ fills THEN catalogItems(limit) ELSE items

\* GET or POST of a REST search alias.
RestSearch(alias, method, p) ==
  /\ rest = NoRest
  /\ rest' = [kind |-> "restSearch", alias |-> alias, method |-> method,
              params |-> p,
              query |-> aliasQuery(alias, method, p),
              limit |-> aliasLimit(alias, method, p),
              results |-> searchAlias(aliasQuery(alias, method, p),
                                      aliasLimit(alias, method, p),
                                      fillsEmpty(alias, method),
                                      openAiToolIndexFallback, backend)]
  /\ UNCHANGED <<searchVars, sessionVars>>

\* ------------------------------------------------- Accept normalization
\* s.split(sep) for a separator of one character
RECURSIVE split(_, _)
split(s, sep) ==
  IF \A i \in 1..Len(s) : Char(s, i) # sep THEN <<s>>
  ELSE LET i == CHOOSE k \in 1..Len(s) :
                  Char(s, k) = sep /\ \A j \in 1..(k - 1) : Char(s, j) # sep
       IN  <<SubSeq(s, 1, i - 1)>> \o split(SubSeq(s, i + 1, Len(s)), sep)

\* .map(s => s.trim()).filter(Boolean)
RECURSIVE trimmedParts(_)
trimmedParts(parts) ==
  IF parts = <<>> THEN <<>>
  ELSE (IF trim(Head(parts)) = "" THEN <<>> ELSE <<trim(Head(parts))>>)
       \o trimmedParts(Tail(parts))

\* parts.some(p => p.includes(type))
someIncludes(parts, type) == \E i \in 1..Len(parts) : includes(parts[i], type)

\* Array.from(new Set(parts)): the first occurrence of every part
RECURSIVE unique(_)
unique(parts) ==
  IF parts = <<>> THEN <<>>
  ELSE LET front == unique(SubSeq(parts, 1, Len(parts) - 1))
           p == parts[Len(parts)]
       IN  IF \E i \in 1..Len(front) : front[i] = p THEN front
           ELSE Append(front, p)

\* parts.join(', ')
RECURSIVE joinComma(_)
joinComma(parts) ==
  IF parts = <<>> THEN ""
  ELSE IF Len(parts) = 1 THEN parts[1]
  ELSE parts[1] \o ", " \o joinComma(Tail(parts))

\* The middleware on a request to /mcp: the Accept header it leaves behind.
\* A missing header reads as ''.
normalizeAccept(accept) ==
  LET original == IF IsSome(accept) THEN Get(accept) ELSE ""
      parts == trimmedParts(split(original, ","))
      needsJson == ~someIncludes(parts, "application/json")
      withJson == IF needsJson THEN Append(parts, "application/json") ELSE parts
      needsStream == ~someIncludes(withJson, "text/event-stream")
      withBoth == IF needsStream THEN Append(withJson, "text/event-stream")
                  ELSE withJson
  IN  IF needsJson \/ needsStream THEN Some(joinComma(unique(withBoth)))
      ELSE accept

\* The Accept headers clients and intermediaries send.
AcceptHeaders ==
  {"", "application/json", "text/event-stream", "*/*",
   "application/json, text/event-stream",
   "text/event-stream,application/json",
   " application/json ;q=0.9 ,, text/event-stream ",
   "text/html, text/html",
   "text/html,text/html, application/json",
   "application/json, application/json, text/event-stream",
   "Application/JSON, text/event-stream",
   "application/jsonl, text/event-stream",
   "text/event-stream-x"}

AcceptParams == {None} \cup {Some(h) : h \in AcceptHeaders}
RequestPaths == {"/mcp", "/search", "/sse"}

\* The Accept middleware runs on a request.
NormalizeAccept(path, accept) ==
  /\ rest = NoRest
  /\ rest' = [kind |-> "accept", path |-> path, original |-> accept,
              accept |-> IF path = "/mcp" THEN normalizeAccept(accept) ELSE accept]
  /\ UNCHANGED <<searchVars, sessionVars>>

\* ----------------------------------------------------------- path recovery
\* What a forwarding header holds: nothing, an empty value, or a path.
HeaderValues == {None, Some(""), Some("/mcp/search"), Some("/mcp/fetch")}

ForwardHeaderSets ==
  {ForwardHeaders(a, b, c, d) :
     a \in HeaderValues, b \in HeaderValues, c \in HeaderValues, d \in HeaderValues}

\* req.originalUrl of a request routed to /mcp
McpUrls == {"/mcp", "/mcp?cursor=1"}

\* The recovery block of handleSessionRequest computes the effective path.
RecoverPath(h, url) ==
  /\ rest = NoRest
  /\ rest' = [kind |-> "recover", headers |-> h, originalUrl |-> url,
              path |-> effectivePath(McpRequest(forwardedUriOf(h), url, "", "", ""))]
  /\ UNCHANGED <<searchVars, sessionVars>>


\* ------------------------------------------------- catalog matching
\* Queries the catalog is matched against: one part, two parts of which one
\* matches, three short parts before a matching one, separators, no match.
CatalogQueries == {"task", "zzz task", "a b c task", "get-task", "Get Task", "zzz"}

\* search.ts:194, 279  toolCatalog.filter(t => toolCatalogMatches(t, query))
MatchCatalog(query) ==
  /\ rest = NoRest
  /\ rest' = [kind |-> "match", query |-> query,
              matches |-> idsOf(catalogMatches(query))]
  /\ UNCHANGED <<searchVars, sessionVars>>
\* -------------------------------------------------------- specifications
SearchInit ==
  /\ openAiToolIndexFallback \in BOOLEAN
  /\ backend \in Backends
  /\ searchCall = NoCall
  /\ searchResp = NoResp
  /\ streamable = EmptyRegistry
  /\ sse = EmptyRegistry
  /\ transport = NoTransports
  /\ inflight = {}
  /\ last = NoRequest
  /\ rest = NoRest

SearchNext ==
  \/ \E params \in SearchParams : CallSearch(params)
  \/ SearchDone

SearchSpec == SearchInit /\ [][SearchNext]_vars

SessionInit ==
  /\ openAiToolIndexFallback = FALSE
  /\ backend = FailingBackend
  /\ searchCall = NoCall
  /\ searchResp = NoResp
  /\ streamable = EmptyRegistry
  /\ sse = EmptyRegistry
  /\ transport = NoTransports
  /\ inflight = {}
  /\ last = NoRequest
  /\ rest = NoRest

SessionNext ==
  \/ \E sid \in SessionHeaders :
       \E body \in IF absent(sid) THEN Bodies ELSE {"other"} : PostMcp(sid, body)
  \/ \E method \in {"GET", "DELETE"}, sid \in SessionHeaders, req \in McpRequests :
       HandleSessionRequest(method, sid, req)
  \/ GetSse
  \/ \E sid \in SessionHeaders : PostMessages(sid)
  \/ \E t \in 1..Len(transport) : CloseSse(t)
  \/ \E t \in 1..Len(transport) : CloseStreamable(t)
  \/ \E t \in inflight : Finish(t)
  \/ Respond

SessionSpec == SessionInit /\ [][SessionNext]_vars

\* A request suspended in a transport is answered in the end; whether and
\* when clients send requests or close connections is up to them.
SessionFairness == \A t \in 1..MaxTransports : WF_vars(Finish(t))

SessionLiveSpec == SessionSpec /\ SessionFairness

RestInit ==
  /\ openAiToolIndexFallback \in BOOLEAN
  /\ backend \in RestBackends
  /\ searchCall = NoCall
  /\ searchResp = NoResp
  /\ streamable = EmptyRegistry
  /\ sse = EmptyRegistry
  /\ transport = NoTransports
  /\ inflight = {}
  /\ last = NoRequest
  /\ rest = NoRest

RestNext ==
  \/ \E id \in IdParams : CallFetch(id)
  \/ \E alias \in FetchAliases, method \in Methods, id \in IdParams :
       RestFetch(alias, method, id)
  \/ \E alias \in SearchAliases, method \in Methods, p \in RestRequests :
       RestSearch(alias, method, p)
  \/ \E path \in RequestPaths, accept \in AcceptParams : NormalizeAccept(path, accept)
  \/ \E h \in ForwardHeaderSets, url \in McpUrls : RecoverPath(h, url)
  \/ \E query \in CatalogQueries : MatchCatalog(query)
  \/ RestDone

RestSpec == RestInit /\ [][RestNext]_vars

Next == SearchNext \/ SessionNext \/ RestNext
Spec == SearchInit /\ [][Next]_vars

\* ===================================================== the search claims
\* The query as the caller supplied it, under whichever name.
CallerQuery ==
  IF searchCall.isString THEN searchCall.text
  ELSE IF IsSome(searchCall.query) THEN Get(searchCall.query)
  ELSE IF IsSome(searchCall.search) THEN Get(searchCall.search)
  ELSE IF IsSome(searchCall.q) THEN Get(searchCall.q)
  ELSE ""

Answered == searchResp # NoResp

\* The caller's limit is the integer n (the default when none is given).
LimitIs(n) ==
  IF searchCall.limit = None THEN n = DefaultLimit
  ELSE searchCall.limit = Some(ToString(n))

Clamp(n) == IF n < MinLimit THEN MinLimit ELSE IF n > MaxLimit THEN MaxLimit ELSE n

Smaller(a, b) == IF a < b THEN a ELSE b

SomeEntryMatches(query) ==
  \E k \in 1..catalogSize : toolCatalogMatches(toolCatalog[k], query)

\* C1: for every query, every backend state (a throwing backend included) and
\* every limit in [1,50], results, ids and objectIds hold at most limit
\* entries.
C1_ResultsWithinLimit ==
  \A n \in MinLimit..MaxLimit :
    (Answered /\ searchCall.limit = Some(ToString(n)))
      => /\ Len(searchResp.results) <= n
         /\ Len(searchResp.ids) <= n
         /\ Len(searchResp.objectIds) <= n

\* C2 as stated: a non-empty query always gets a non-empty result set, the
\* catalog being non-empty, whatever the backend holds and when it fails.
C2_NeverEmpty ==
  (Answered /\ trim(CallerQuery) # "" /\ catalogSize > 0)
    => Len(searchResp.results) > 0

\* C2 amended: a non-empty query with an integer (or no) limit gets a
\* non-empty result set when the backend listing succeeds with at least one
\* item, or when the catalog fallback is enabled and at least one catalog
\* entry matches the query.
C2_NonEmptyWhenSourced ==
  (/\ Answered
   /\ trim(CallerQuery) # ""
   /\ \E n \in IntLimits \cup {DefaultLimit} : LimitIs(n)
   /\ \/ backend.ok /\ Len(backend.summaries) > 0
      \/ openAiToolIndexFallback /\ SomeEntryMatches(trim(CallerQuery)))
    => Len(searchResp.results) > 0

\* A failing backend, the fallback enabled, a query some entry matches.
C2_Witness ==
  /\ Answered
  /\ ~backend.ok
  /\ openAiToolIndexFallback
  /\ searchCall.query = Some("get-task")
  /\ searchResp.path = "error"
  /\ Len(searchResp.results) > 0

\* C3: when the backend listing throws, the response holds only catalog
\* entries that match the caller's query, however the query was supplied.
C3_ErrorServesMatchingEntries ==
  (Answered /\ ~backend.ok /\ trim(CallerQuery) # "")
    => \A i \in 1..Len(searchResp.results) :
         \E k \in 1..catalogSize :
           /\ searchResp.results[i] = toolItem(toolCatalog[k])
           /\ toolCatalogMatches(toolCatalog[k], trim(CallerQuery))

\* C10: an empty or whitespace-only query returns exactly
\* min(limit, catalogSize) results, the first catalog entries in catalog
\* order, and the backend is not called.
C10_EmptyQueryListsCatalog ==
  \A n \in IntLimits \cup {DefaultLimit} :
    (Answered /\ trim(CallerQuery) = "" /\ LimitIs(n))
      => /\ Len(searchResp.results) = Smaller(Clamp(n), catalogSize)
         /\ \A i \in 1..Len(searchResp.results) :
              /\ searchResp.results[i].id = toolCatalog[i].id
              /\ searchResp.results[i].title = toolCatalog[i].title
              /\ searchResp.ids[i] = toolCatalog[i].id
         /\ ~searchResp.backendCalled

\* A whitespace-only query with a limit above the catalog's size.
C10_Witness ==
  /\ Answered
  /\ searchCall.query = Some("  ")
  /\ searchCall.limit = Some("51")
  /\ Len(searchResp.results) = catalogSize
  /\ ~searchResp.backendCalled

\* ==================================================== the session claims
McpEndpoints == {"POST /mcp", "GET /mcp", "DELETE /mcp"}
SessionEndpoints == McpEndpoints \cup {"POST /messages"}

\* The request names a session id.
Named(l) == IsSome(l.sid) /\ Get(l.sid) # ""

\* A session with this id has been closed.
ClosedId(s) ==
  \E t \in 1..Len(transport) : transport[t].closed /\ transport[t].sessionId = s

\* Answered 400 by the handler, no transport having seen the request.
Rejected400(l) == l.outcome = "rejected" /\ l.status = 400 /\ l.by = 0

RetrievalStyle(path) == includes(path, "/mcp/search") \/ includes(path, "/mcp/fetch")

\* A GET or DELETE /mcp whose recovered path is retrieval-style, answered as
\* a REST search or fetch.
ServedAsRest(l) ==
  /\ l.ep \in {"GET /mcp", "DELETE /mcp"}
  /\ RetrievalStyle(l.path)
  /\ l.outcome = "rest"
  /\ l.by = 0

\* A handler has just answered a request.
NewRequest == last' # last /\ last'.ep \in SessionEndpoints

\* No closed session is in a registry.
ClosedDeregistered ==
  \A t \in 1..Len(transport) :
    (transport[t].closed /\ transport[t].sessionId # "")
      => /\ transport[t].sessionId \notin DOMAIN streamable
         /\ transport[t].sessionId \notin DOMAIN sse

\* C4: a POST /messages naming a registered streaming-channel session is
\* handed to exactly the transport created for it; one naming any other value
\* is answered 400 and no transport receives it.
C4_MessagesReachOwnTransport ==
  (last.ep = "POST /messages")
    => IF IsSome(last.sid) /\ Get(last.sid) \in DOMAIN sse
         THEN /\ last.outcome = "transport"
              /\ last.by \in 1..Len(transport)
              /\ transport[last.by].kind = "sse"
              /\ transport[last.by].sessionId = Get(last.sid)
         ELSE Rejected400(last)

\* C5 as stated: a closed session's id is in no registry, and every later
\* request naming it is rejected with a 400.
C5_ClosedIdRejected ==
  [][/\ ClosedDeregistered'
     /\ (NewRequest /\ Named(last') /\ ClosedId(Get(last'.sid)))
          => Rejected400(last')]_vars

\* C5 amended: a closed session's id is in no registry, and every later
\* request naming it is rejected with a 400 and changes no registry, also
\* while another request of the session is in flight; except that a GET or
\* DELETE /mcp whose recovered path is retrieval-style is answered as a REST
\* search or fetch, no transport handling it.
C5_ClosedIdRejectedUnlessRecovered ==
  [][/\ ClosedDeregistered'
     /\ (NewRequest /\ Named(last') /\ ClosedId(Get(last'.sid)))
          => /\ Rejected400(last') \/ ServedAsRest(last')
             /\ streamable' = streamable
             /\ sse' = sse
             /\ transport' = transport]_vars

\* A request of the session was in flight when it closed, and a later
\* request naming its id has been rejected.
C5_Witness ==
  \E t \in inflight :
    /\ transport[t].closed
    /\ last.sid = Some(transport[t].sessionId)
    /\ last.ep \in SessionEndpoints
    /\ Rejected400(last)

\* C6: a POST /mcp naming an id that does not resolve in the request/response
\* registry is rejected with 400 and code -32000, creates no transport and
\* leaves the registry unchanged.
C6_UnresolvedPostRejected ==
  [][(/\ NewRequest
      /\ last'.ep = "POST /mcp"
      /\ Named(last')
      /\ Get(last'.sid) \notin DOMAIN streamable)
       => /\ Rejected400(last')
          /\ last'.code = -32000
          /\ last'.message = "Bad Request: No valid session ID provided"
          /\ transport' = transport
          /\ streamable' = streamable
          /\ sse' = sse]_vars

\* Every registry entry is the live transport of its own kind that carries
\* the entry's id, and no two live transports carry one id.
RegistryLive ==
  /\ \A id \in DOMAIN streamable :
       /\ streamable[id] \in 1..Len(transport)
       /\ transport[streamable[id]] = Transport("streamable", id)
  /\ \A id \in DOMAIN sse :
       /\ sse[id] \in 1..Len(transport)
       /\ transport[sse[id]] = Transport("sse", id)
  /\ \A t1, t2 \in 1..Len(transport) :
       (/\ ~transport[t1].closed
        /\ ~transport[t2].closed
        /\ transport[t1].sessionId # ""
        /\ transport[t1].sessionId = transport[t2].sessionId) => t1 = t2

OtherKindId(l) ==
  \/ l.ep \in McpEndpoints /\ Get(l.sid) \in DOMAIN sse
  \/ l.ep = "POST /messages" /\ Get(l.sid) \in DOMAIN streamable

\* C8 as stated: an id registered for one kind of session is rejected (400)
\* by the endpoints of the other kind.
C8_OtherKindRejected ==
  [][(NewRequest /\ Named(last') /\ OtherKindId(last'))
       => Rejected400(last')]_vars

\* C8 amended: an id registered for one kind of session is rejected (400) by
\* the endpoints of the other kind, no transport handling the request;
\* except that a GET or DELETE /mcp whose recovered path is retrieval-style
\* is answered as a REST search or fetch.
C8_OtherKindRejectedUnlessRecovered ==
  [][(NewRequest /\ Named(last') /\ OtherKindId(last'))
       => /\ Rejected400(last') \/ ServedAsRest(last')
          /\ streamable' = streamable
          /\ sse' = sse]_vars

\* A live request/response session's id was presented to POST /messages and
\* rejected.
C8_Witness ==
  /\ last.ep = "POST /messages"
  /\ Named(last)
  /\ Get(last.sid) \in DOMAIN streamable
  /\ Rejected400(last)

\* C9, for the requests whose recovered path is not retrieval-style: a GET or
\* DELETE /mcp without session header, or naming an id that is not a live
\* request/response session, is answered 400 with code -32000 and the fixed
\* message, and no transport handles it.
C9_SessionRequestRejected ==
  [][(/\ NewRequest
      /\ last'.ep \in {"GET /mcp", "DELETE /mcp"}
      /\ ~RetrievalStyle(last'.path)
      /\ ~Named(last') \/ Get(last'.sid) \notin DOMAIN streamable)
       => /\ Rejected400(last')
          /\ last'.code = -32000
          /\ last'.message = "Bad Request: Mcp-Session-Id header is required"]_vars

\* ================================================ the ranking claims
\* The query the facade works with.
TrimmedQuery == trim(CallerQuery)

\* The backend items the Matching Engine declares a match for the query.
Matching ==
  {i \in 1..Len(backend.summaries) :
     isNameMatch(backend.summaries[i].name, TrimmedQuery).isMatch}

ScoreOf(i) == isNameMatch(backend.summaries[i].name, TrimmedQuery).score
UpdatedOf(i) == dateOf(backend.summaries[i]).v

\* Item i ranks strictly above item j.
RanksAbove(i, j) ==
  \/ ScoreOf(i) > ScoreOf(j)
  \/ ScoreOf(i) = ScoreOf(j) /\ UpdatedOf(i) > UpdatedOf(j)

\* The position in the listing of the item a result stands for (0: none).
ListedAs(item) ==
  IF \E i \in 1..Len(backend.summaries) :
       item = [id |-> backend.summaries[i].id, title |-> backend.summaries[i].name]
    THEN CHOOSE i \in 1..Len(backend.summaries) :
           item = [id |-> backend.summaries[i].id, title |-> backend.summaries[i].name]
    ELSE 0

\* C11: for a non-empty query with at least one matching backend item, the
\* results are exactly the matching backend items, by descending score and
\* then by descending last-updated time, truncated to limit; no non-matching
\* item and no catalog entry is among them.
C11_RankedMatchesOnly ==
  \A n \in IntLimits \cup {DefaultLimit} :
    (Answered /\ LimitIs(n) /\ backend.ok /\ TrimmedQuery # "" /\ Matching # {})
      => LET res == searchResp.results
             at == [i \in 1..Len(res) |-> ListedAs(res[i])]
         IN  /\ Len(res) = Smaller(Clamp(n), Cardinality(Matching))
             /\ \A i \in 1..Len(res) : at[i] \in Matching
             /\ \A i, j \in 1..Len(res) : i < j => at[i] # at[j]
             /\ \A i, j \in 1..Len(res) : i < j => ~RanksAbove(at[j], at[i])
             /\ \A m \in Matching :
                  (\A i \in 1..Len(res) : at[i] # m)
                    => \A i \in 1..Len(res) : ~RanksAbove(m, at[i])

\* Two matching items whose score order is the reverse of their recency
\* order, truncated to the better-scored one.
C11_Witness ==
  /\ Answered
  /\ searchCall.query = Some("Invoice #1")
  /\ searchCall.limit = Some("1")
  /\ backend.ok
  /\ backend.summaries = <<Task2, Task1>>
  /\ Matching = {1, 2}
  /\ searchResp.results = <<[id |-> "t1", title |-> "Invoice #1"]>>

\* The catalog entries that textually match the query.
MatchingEntries ==
  {c \in 1..catalogSize : toolCatalogMatches(toolCatalog[c], TrimmedQuery)}

\* The position in the catalog of the entry a result stands for (0: none).
CatalogAs(item) ==
  IF \E c \in 1..catalogSize : item = toolItem(toolCatalog[c])
    THEN CHOOSE c \in 1..catalogSize : item = toolItem(toolCatalog[c])
    ELSE 0

\* C12: for a non-empty query with zero matching backend items, the results
\* start with the min(limit, number of items) most recently updated backend
\* items, most recent first, followed by catalog entries that textually match
\* the query, added only while the total is below limit (the first matching
\* ones in catalog order when the catalog fallback is enabled, none when it is
\* not); the total never exceeds limit.
C12_RecentThenCatalog ==
  \A n \in IntLimits \cup {DefaultLimit} :
    (Answered /\ LimitIs(n) /\ backend.ok /\ TrimmedQuery # "" /\ Matching = {})
      => LET res == searchResp.results
             k == Smaller(Clamp(n), Len(backend.summaries))
             me == MatchingEntries
             at == [i \in 1..Len(res) |-> ListedAs(res[i])]
             ct == [i \in 1..Len(res) |-> CatalogAs(res[i])]
         IN  /\ Len(res) <= Clamp(n)
             /\ Len(res) >= k
             /\ \A i \in 1..k : at[i] \in 1..Len(backend.summaries)
             /\ \A i, j \in 1..k : i < j =>
                  at[i] # at[j] /\ UpdatedOf(at[i]) >= UpdatedOf(at[j])
             /\ \A m \in 1..Len(backend.summaries) :
                  (\A i \in 1..k : at[i] # m)
                    => \A i \in 1..k : UpdatedOf(at[i]) >= UpdatedOf(m)
             /\ \A i \in (k + 1)..Len(res) : ct[i] \in me
             /\ \A i, j \in (k + 1)..Len(res) : i < j => ct[i] < ct[j]
             /\ \A i \in (k + 1)..Len(res) :
                  \A c \in me : c < ct[i] => \E j \in (k + 1)..i : ct[j] = c
             /\ Len(res) = IF openAiToolIndexFallback
                             THEN Smaller(Clamp(n), k + Cardinality(me))
                             ELSE k

\* One backend item that does not match, then the first matching catalog
\* entry, up to a limit of two.
C12_Witness ==
  /\ Answered
  /\ searchCall.query = Some("get-task")
  /\ searchCall.limit = Some("2")
  /\ openAiToolIndexFallback
  /\ backend.ok
  /\ backend.summaries = <<Task3>>
  /\ Len(searchResp.results) = 2
  /\ searchResp.results[1].id = "t3"
  /\ searchResp.results[2].id = "tool:search"

\* C13: whatever limit is given (zero, negative, above 50, not a number), the
\* search runs with an effective limit inside [1,50], and with 10 when none is
\* given; so an empty query always lists at least one catalog entry.
C13_EffectiveLimitInRange ==
  Answered
    => /\ ~limitOf(searchCall).nan
       /\ limitOf(searchCall).v \in MinLimit..MaxLimit
       /\ searchCall.limit = None => limitOf(searchCall).v = DefaultLimit
       /\ TrimmedQuery = "" => Len(searchResp.results) >= 1

\* ------------------------------------------------------------ fetch claims
\* The fetch tool has answered a call that carried an id.
Fetched == rest.kind = "fetch" /\ IsSome(rest.id) /\ Get(rest.id) # ""

\* The id has the shape of a catalog id.
HasToolShape(id) == Len(id) >= 5 /\ SubSeq(id, 1, 5) = "tool:"

EntriesWithId(id) == {c \in 1..catalogSize : toolCatalog[c].id = id}

\* C14: a fetch whose id starts with 'tool:' never calls the backend; it
\* returns the catalog entry with exactly that id, the same document whatever
\* the backend does, and an error response carrying no document field when
\* the catalog has no entry with that id.
C14_ToolIdsNeverReachBackend ==
  (Fetched /\ HasToolShape(Get(rest.id))) =>
    LET id == Get(rest.id)
        r == rest.result
    IN  /\ r.getTaskCalls = 0
        /\ \A be \in Backends : handleFetch(id, be) = r
        /\ EntriesWithId(id) # {} =>
             /\ ~r.isError
             /\ r.id = id
             /\ \E c \in EntriesWithId(id) :
                  /\ r.raw = Some(toolCatalog[c])
                  /\ r.title = toolCatalog[c].title
                  /\ r.url = toolCatalog[c].url
        /\ EntriesWithId(id) = {} =>
             /\ r.isError
             /\ r.fields \cap DocumentFields = {}

C14_Witness ==
  /\ Fetched
  /\ rest.id = Some("tool:search")
  /\ ~backend.ok
  /\ ~rest.result.isError
  /\ rest.result.id = "tool:search"
  /\ rest.result.getTaskCalls = 0

\* The backend has a task with this id.
Listed(id) == \E i \in 1..Len(backend.summaries) : backend.summaries[i].id = id

\* The id names nothing that can be fetched: a tool-shaped id the catalog
\* lacks, or a task id the answering backend does not have.
TargetAbsent(id) ==
  IF HasToolShape(id) THEN EntriesWithId(id) = {}
  ELSE backend.ok /\ ~Listed(id)

\* The backend call of this fetch throws because the backend is unavailable.
BackendThrows(id) == ~HasToolShape(id) /\ ~backend.ok

IdMissing(id) == id = None \/ id = Some("")

\* C15: every outcome of handleFetch is a complete document (id, title, text,
\* url, metadata and raw all present, for the requested id) or an error
\* response with none of these fields; a missing id, an absent target and a
\* throwing backend all give the error response.
C15_DocumentOrFailure ==
  rest.kind = "fetch" =>
    LET r == rest.result
        complete == /\ ~r.isError
                    /\ DocumentFields \subseteq r.fields
                    /\ Some(r.id) = rest.id
                    /\ r.title # ""
                    /\ IsSome(r.raw)
        failure == /\ r.isError
                   /\ r.fields \cap DocumentFields = {}
                   /\ r.message # ""
    IN  /\ complete \/ failure
        /\ (IdMissing(rest.id) \/ TargetAbsent(Get(rest.id))
              \/ BackendThrows(Get(rest.id))) => failure

C15_Witness ==
  /\ rest.kind = "fetch"
  /\ rest.id = Some("t9")
  /\ backend.ok
  /\ Len(backend.summaries) = MaxItems
  /\ rest.result.isError
  /\ rest.result.fields \cap DocumentFields = {}

\* C16: a fetch of a task the backend does not have and the same fetch
\* against an unavailable backend get different outcomes, from the fetch tool
\* and from every REST fetch alias.
C16_NotFoundDistinguishable ==
  /\ (Fetched /\ ~HasToolShape(Get(rest.id)) /\ TargetAbsent(Get(rest.id))) =>
       rest.result # handleFetch(Get(rest.id), FailingBackend)
  /\ (rest.kind = "restFetch" /\ ~IdMissing(rest.id)
        /\ ~HasToolShape(Get(rest.id)) /\ TargetAbsent(Get(rest.id))) =>
       rest.answer # fetchAliasOf(rest.alias, rest.id, FailingBackend)

\* C17: a REST fetch alias answers 400 exactly when the id is missing or
\* empty, 404 when the target is absent, and otherwise 200 with the id and,
\* as content, the text of the fetched document.
C17_FetchAliasStatuses ==
  rest.kind = "restFetch" =>
    LET a == rest.answer
    IN  /\ a.status = 400 <=> IdMissing(rest.id)
        /\ (~IdMissing(rest.id) /\ TargetAbsent(Get(rest.id))) => a.status = 404
        /\ (~IdMissing(rest.id) /\ ~TargetAbsent(Get(rest.id))) =>
             /\ a.status = 200
             /\ Some(a.id) = rest.id
             /\ a.content = handleFetch(Get(rest.id), backend).text

\* ----------------------------------------------------- REST search claims
\* The query and the limit a search request carries, under whichever name.
SuppliedQuery(p) == IF IsSome(p.query) THEN p.query ELSE p.q

SuppliedLimit(p) ==
  IF IsSome(p.limit) THEN p.limit
  ELSE IF IsSome(p.top_k) THEN p.top_k
  ELSE IF IsSome(p.k) THEN p.k
  ELSE p.n

\* The same request with its values under the names query and limit.
Canonical(p) == RestParams(SuppliedQuery(p), None, SuppliedLimit(p), None, None, None)

\* C18: on every REST search alias a value gives the same effective query
\* under query and under q, and the same effective limit under limit, top_k,
\* k and n; without a limit parameter the limit is 10, and a value above 50
\* gives 50.
C18_AliasNamesInterchangeable ==
  rest.kind = "restSearch" =>
    /\ rest.query = aliasQuery(rest.alias, rest.method, Canonical(rest.params))
    /\ rest.limit = aliasLimit(rest.alias, rest.method, Canonical(rest.params))
    /\ SuppliedLimit(rest.params) = None => rest.limit = Num(RestDefaultLimit)
    /\ \A v \in RestLimits :
         (SuppliedLimit(rest.params) = Some(ToString(v)) /\ v > RestMaxLimit) =>
           rest.limit = Num(RestMaxLimit)

\* C19: on every REST search alias every integer given as limit, zero and
\* negative ones included, is clamped into [1,50], and the response has no
\* more results than the clamped limit, for the empty query too.
C19_RestLimitClamped ==
  rest.kind = "restSearch" =>
    \A v \in RestLimits :
      rest.params.limit = Some(ToString(v)) =>
        /\ rest.limit = Num(Clamp(v))
        /\ Len(rest.results) <= Clamp(v)

\* ------------------------------------------------ Accept header claims
AcceptTypes == {"application/json", "text/event-stream"}

\* The media types a header lists: each token without its parameters, in
\* lower case (media types are case-insensitive).
MediaTypes(header) ==
  LET listed == trimmedParts(split(header, ","))
  IN  [i \in 1..Len(listed) |-> toLowerCase(trim(Head(split(listed[i], ";"))))]

TokensOf(header, type) ==
  {i \in 1..Len(MediaTypes(header)) : MediaTypes(header)[i] = type}

Declares(header, type) == TokensOf(header, type) # {}

\* The middleware has run on a request to the unified RPC endpoint.
Normalized == rest.kind = "accept" /\ rest.path = "/mcp"

HeaderBefore == IF IsSome(rest.original) THEN Get(rest.original) ELSE ""
HeaderAfter == IF IsSome(rest.accept) THEN Get(rest.accept) ELSE ""

AcceptIdempotent == Normalized => normalizeAccept(rest.accept) = rest.accept

AcceptDeclaresBoth ==
  Normalized => \A type \in AcceptTypes : Declares(HeaderAfter, type)

AcceptAddsNoDuplicate ==
  Normalized =>
    \A type \in AcceptTypes :
      Declares(HeaderBefore, type) =>
        Cardinality(TokensOf(HeaderAfter, type))
          <= Cardinality(TokensOf(HeaderBefore, type))

AcceptKeepsComplete ==
  (Normalized /\ \A type \in AcceptTypes : Declares(HeaderBefore, type)) =>
    rest.accept = rest.original

\* C20: normalizing the Accept header of a request to /mcp is idempotent, the
\* result declares both application/json and text/event-stream, no token is
\* added for a type the header already declares, and a header that declares
\* both is left as it is.
C20_AcceptNormalized ==
  /\ AcceptIdempotent
  /\ AcceptDeclaresBoth
  /\ AcceptAddsNoDuplicate
  /\ AcceptKeepsComplete

\* ============================================== the path recovery claims
\* The request a GET or DELETE /mcp answer belongs to.
RequestOf(l) ==
  CHOOSE req \in McpRequests :
    effectivePath(req) = l.path /\ recoveryOf(req) = l.recovery

\* The status of the REST answer, from the request and the backend alone.
RestStatusOf(req) ==
  IF includes(effectivePath(req), "/mcp/search") THEN 200
  ELSE IF req.id = "" THEN 400
  ELSE IF ~hasDocument(handleFetch(req.id, backend)) THEN 404
  ELSE 200

\* A GET or DELETE /mcp has just been answered.
NewSessionRequest == last' # last /\ last'.ep \in {"GET /mcp", "DELETE /mcp"}

\* C21: a GET or DELETE /mcp whose recovered path is retrieval-style is
\* answered as a REST search or fetch: the answer is the one the request and
\* the backend give whatever the session header and the registries hold, no
\* transport handles the request, and registries, transports and suspended
\* requests are unchanged.
C21_RecoveredServedWithoutSession ==
  [][(NewSessionRequest /\ last'.recovery \in {"search", "fetch"})
       => /\ RetrievalStyle(last'.path)
          /\ last'.outcome = "rest"
          /\ last'.by = 0
          /\ last'.status = RestStatusOf(RequestOf(last'))
          /\ streamable' = streamable
          /\ sse' = sse
          /\ transport' = transport
          /\ inflight' = inflight]_vars

\* A live request/response session's id came with a recovered search, which
\* was answered as REST.
C21_Witness ==
  /\ last.ep = "DELETE /mcp"
  /\ last.recovery = "search"
  /\ Named(last)
  /\ Get(last.sid) \in DOMAIN streamable
  /\ last.outcome = "rest"
  /\ last.status = 200

\* The sources of the effective path, in their order of precedence.
SourcesOf(r) ==
  <<r.headers.xOriginalUri, r.headers.xRewriteUrl, r.headers.xForwardedUri,
    r.headers.xForwardedUrl, Some(r.originalUrl)>>

\* A source is present when it carries a value.
Present(source) == source # None /\ source # Some("")

\* C22: the effective path is the value of the first present source in the
\* order x-original-uri, x-rewrite-url, x-forwarded-uri, x-forwarded-url, own
\* URL; the sources after it have no influence.
C22_FirstPresentSourceWins ==
  rest.kind = "recover" =>
    \A i \in 1..Len(SourcesOf(rest)) :
      (/\ Present(SourcesOf(rest)[i])
       /\ \A j \in 1..(i - 1) : ~Present(SourcesOf(rest)[j]))
        => rest.path = Get(SourcesOf(rest)[i])

\* x-rewrite-url wins over x-forwarded-uri and the own URL when
\* x-original-uri is empty.
C22_Witness ==
  /\ rest.kind = "recover"
  /\ rest.headers.xOriginalUri = Some("")
  /\ rest.headers.xRewriteUrl = Some("/mcp/search")
  /\ rest.headers.xForwardedUri = Some("/mcp/fetch")
  /\ rest.originalUrl = "/mcp?cursor=1"
  /\ rest.path = "/mcp/search"

Active(n) == streamableSessionId(n) \in DOMAIN streamable

\* No request is being handled and none has arrived.
Idle == inflight = {} /\ last = NoRequest

\* C24: an active request/response session that receives no further request
\* is eventually closed and removed from the registry.
C24_IdleSessionEventuallyClosed ==
  \A n \in 1..MaxTransports : (Active(n) /\ Idle) ~> (~Active(n) \/ ~Idle)

\* A step deletes a registry entry.
EntryDeleted ==
  \/ DOMAIN streamable' # DOMAIN streamable /\ DOMAIN streamable' \subseteq DOMAIN streamable
  \/ DOMAIN sse' # DOMAIN sse /\ DOMAIN sse' \subseteq DOMAIN sse

\* A suspended handler resumes.
Resumed == inflight' # inflight /\ inflight' \subseteq inflight

RequestResponse(tr, t) == t \in 1..Len(tr) /\ tr[t].kind = "streamable"

\* Where the t-th transport is in its life, given the transports and the
\* request/response registry: 0 not created yet, 1 Uninitialized, 2 Active,
\* 3 Closed.
PhaseIn(tr, reg, t) ==
  IF t > Len(tr) THEN 0
  ELSE IF tr[t].closed THEN 3
  ELSE IF tr[t].sessionId \in DOMAIN reg /\ reg[tr[t].sessionId] = t THEN 2
  ELSE 1

RegisteredIn(reg, t) == \E id \in DOMAIN reg : reg[id] = t

\* C26: a request/response session only moves forward through Uninitialized,
\* Active and Closed: a transport that generated an id is registered under
\* it until it closes, registration happens only when the transport is
\* created, a closed transport is in the registry no more and never again,
\* and the close of a transport that was never initialized leaves the
\* registry unchanged.
C26_LifecycleMovesForward ==
  [][\A t \in 1..MaxTransports :
       /\ PhaseIn(transport', streamable', t) >= PhaseIn(transport, streamable, t)
       /\ RequestResponse(transport', t) =>
            /\ (~transport'[t].closed /\ transport'[t].sessionId # "")
                 => PhaseIn(transport', streamable', t) = 2
            /\ transport'[t].closed => ~RegisteredIn(streamable', t)
            /\ (RegisteredIn(streamable', t) /\ ~RegisteredIn(streamable, t))
                 => PhaseIn(transport, streamable, t) = 0
            /\ (PhaseIn(transport, streamable, t) = 1
                  /\ PhaseIn(transport', streamable', t) = 3)
                 => streamable' = streamable]_vars

\* A transport that was never initialized and a session that was active have
\* both closed.
C26_Witness ==
  \E t1, t2 \in 1..Len(transport) :
    /\ RequestResponse(transport, t1)
    /\ transport[t1].closed
    /\ transport[t1].sessionId = ""
    /\ RequestResponse(transport, t2)
    /\ transport[t2].closed
    /\ transport[t2].sessionId # ""
    /\ transport[t2].sessionId \notin DOMAIN streamable

\* The t-th transport closes in this step.
Closes(t) == t \in 1..Len(transport) /\ ~transport[t].closed /\ transport'[t].closed

\* Every entry of the registry but the one under this id is kept as it is.
OthersKept(before, after, id) ==
  \A k \in DOMAIN before \ {id} : k \in DOMAIN after /\ after[k] = before[k]

\* C27: the close of a session removes only that session's registry entry:
\* every other registered session stays registered with the same transport,
\* and the registry of the other kind of session is unchanged.
C27_CloseRemovesOnlyOwnEntry ==
  [][\A t \in 1..MaxTransports :
       Closes(t) =>
         IF transport[t].kind = "sse"
           THEN /\ streamable' = streamable
                /\ OthersKept(sse, sse', transport[t].sessionId)
                /\ transport[t].sessionId \notin DOMAIN sse'
           ELSE /\ sse' = sse
                /\ OthersKept(streamable, streamable', transport[t].sessionId)
                /\ transport[t].sessionId \notin DOMAIN streamable']_vars

\* A streaming-channel session has closed and a request/response session
\* created before the close is still registered.
C27_Witness ==
  \E t1, t2 \in 1..Len(transport) :
    /\ t2 < t1
    /\ transport[t1].kind = "sse"
    /\ transport[t1].closed
    /\ transport[t1].sessionId \notin DOMAIN sse
    /\ transport[t2].kind = "streamable"
    /\ ~transport[t2].closed
    /\ transport[t2].sessionId \in DOMAIN streamable
    /\ streamable[transport[t2].sessionId] = t2

\* The REST search entry points: the six aliases and the GET /mcp that a
\* proxy rewrote from /mcp/search.
SearchEntryPoints == (SearchAliases \X Methods) \cup {<<"/mcp", "GET">>}

\* The ids an entry point answers for a query and a limit it has read.
EntryPointIds(e, query, limit) ==
  idsOf(searchAlias(query, limit, fillsEmpty(e[1], e[2]),
                    openAiToolIndexFallback, backend))

\* The limit read is a number from 1 to 50.
LimitInRange(limit) == ~limit.nan /\ limit.v >= 1 /\ limit.v <= RestMaxLimit

\* C28: for one non-empty query, one limit from 1 to 50 and one backend state,
\* every REST search entry point answers the same sequence of result ids.
C28_EntryPointsAgree ==
  (rest.kind = "restSearch" /\ rest.query # "" /\ LimitInRange(rest.limit))
    => \A e \in SearchEntryPoints :
         EntryPointIds(e, rest.query, rest.limit) = idsOf(rest.results)

\* A search has been answered.
SearchAnswered == searchResp # NoResp /\ searchResp.path # "none"

\* ids[i] is the id of results[i], and both have the same length.
IdsOfResults(ids, results) ==
  /\ Len(ids) = Len(results)
  /\ \A i \in 1..Len(results) : ids[i] = results[i].id

\* C29: in every response of the search tool, on every path, ids and objectIds
\* are the same sequence of the same length as results, ids[i] is the id of
\* results[i], and structuredContent carries the same three sequences.
C29_IdsMirrorResults ==
  SearchAnswered =>
    /\ searchResp.ids = searchResp.objectIds
    /\ IdsOfResults(searchResp.ids, searchResp.results)
    /\ searchResp.structuredContent.ids = searchResp.ids
    /\ searchResp.structuredContent.objectIds = searchResp.objectIds
    /\ searchResp.structuredContent.results = searchResp.results

\* The zero-match fallback answered a recent item followed by a catalog entry.
C29_Witness ==
  /\ SearchAnswered
  /\ searchResp.path = "fallback"
  /\ Len(searchResp.results) >= 2
  /\ startsWith(searchResp.ids[Len(searchResp.ids)], "tool:")
  /\ ~startsWith(searchResp.ids[1], "tool:")

\* The query parts of two characters or more, and those of them that contain
\* or are contained in some part of the tool's text.
SignificantParts(q) == significant(splitParts(q))
MatchingParts(i, q) == covered(splitParts(q), catalogParts[i])

\* The stated rule for the i-th catalog entry and a query: the query is a
\* substring of the entry's text, or at least one significant part matches and
\* the matching parts are at least 60% of the significant ones.
StatedMatch(i, q) ==
  \/ includes(catalogTexts[i], q)
  \/ /\ Cardinality(MatchingParts(i, q)) >= 1
     /\ 10 * Cardinality(MatchingParts(i, q)) >= 6 * Cardinality(SignificantParts(q))

\* C30: toolCatalogMatches(tool, query) is true exactly when the query is a
\* substring of the tool's text or the significant query parts that match a
\* part of the tool's text are at least 60% of the significant query parts
\* and at least one.
C30_CatalogMatchRule ==
  rest.kind = "match" =>
    \A i \in 1..catalogSize :
      (\E k \in 1..Len(rest.matches) : rest.matches[k] = toolCatalog[i].id)
        <=> StatedMatch(i, toLowerCase(rest.query))
=============================================================================
